---- MODULE Spec2Model ----
(***************************************************************************)
(* Model of the policed rate limiter (package policied):                   *)
(*   Policier     - src/policied.go, lines 116-272 (the current revision)  *)
(*   WrappedConn  - src/conn.go                                            *)
(* Rates are bytes per second, limiters are (limit, burst) pairs, time is  *)
(* abstract: a reservation either has a finite delay or never completes.   *)
(***************************************************************************)
EXTENDS Integers, Sequences, FiniteSets, TLC

\* ---------------------------------------------------------------- bounds
MaxKbps == 2
NConns == 2
MaxLen == 13
MaxCloseCalls == 3
MaxSetterCalls == 1

Kbps == 0..MaxKbps
Conns == 1..NConns
Closers == 1..2
NoConn == 0

\* rate.Inf: the limit of a limiter that never delays
Inf == -1

Min(a, b) == IF a < b THEN a ELSE b

\* math.Ceil(float64(x) * 0.005) for the rates of the model
Ceil5Permille(x) == (x * 5 + 999) \div 1000

\* the burst factor 0.005 of the Policier, in thousandths
DefaultBurstFactor == 5

\* math.Ceil(float64(x) * f) for a burst factor of f thousandths
CeilPermille(x, f) == (x * f + 999) \div 1000

\* burst factors given to SetBurstFactor, in thousandths: 0 is below the
\* range [0.001, 1.0], 1001 above it
Factors == {0, 1, 500, 1000, 1001}

\* ------------------------------------------------------------- variables
VARIABLES
    globalBps,   \* Policier.globalBps
    connBPS,     \* Policier.connBPS
    maxChunk,    \* Policier.maxChunk
    limiter,     \* Policier.limiter, the limiter the pointer refers to
    connPool,    \* Policier.connPool: remote address -> connection
    burstFactor, \* the Policier's burst factor, in thousandths
    sg,          \* the goroutines calling SetGlobalRate
    wc,          \* the WrappedConn structs
    once,        \* WrappedConn.onceCloser
    sizes,       \* the sizes channel of each connection (unbuffered)
    permits,     \* the permits channel of each connection (capacity 1)
    transport,   \* the wrapped net.Conn of each connection
    lc,          \* the listenConn goroutine of each connection
    wr,          \* the goroutine calling Write on each connection
    cl,          \* the goroutines calling Close on each connection
    lastOp,      \* the API call that returned last
    calls,       \* number of setter calls made
    hist         \* per-connection event counters

policierVars ==
    <<globalBps, connBPS, maxChunk, limiter, connPool, burstFactor, sg>>
ioVars == <<once, sizes, permits, transport, lc, wr, cl, hist>>
vars == <<globalBps, connBPS, maxChunk, limiter, connPool, burstFactor, sg, wc,
          once, sizes, permits, transport, lc, wr, cl, lastOp, calls, hist>>

\* ------------------------------------------------------- rate.Limiter
NewLimiter(limit, burst) == [limit |-> limit, burst |-> burst]

\* rate.Limit(bps), replaced by rate.Inf when bps is 0
LimitOf(bps) == IF bps = 0 THEN Inf ELSE bps

\* Reservation.DelayFrom is finite: the limit is infinite or n fits the burst
ReserveOK(lim, n) == lim.limit = Inf \/ n <= lim.burst

\* ------------------------------------------------------- WrappedConn
NilConn ==
    [exists |-> FALSE, bps |-> 0, maxChunk |-> 0, chunkSize |-> 0,
     limiter |-> NewLimiter(Inf, 0), closed |-> FALSE]

\* a calcChunk that stores the maximum and keeps the chunk size
calcChunkKeep(w, max) == [w EXCEPT !.maxChunk = max]

calcChunk(w, max) ==
    [w EXCEPT !.maxChunk = max,
              !.chunkSize = IF max > w.bps /\ w.bps > 0 THEN w.bps ELSE max]

setRate(w, bps, max) ==
    [calcChunk([w EXCEPT !.bps = bps], max)
        EXCEPT !.limiter = NewLimiter(LimitOf(bps), bps)]

\* a SetRate that goes through setRate and so recomputes the chunk size
ConnSetRateRecalc(w, kbps) == setRate(w, kbps * 1024, w.maxChunk)

\* the public SetRate
ConnSetRate(w, kbps) ==
    [w EXCEPT !.bps = kbps * 1024,
              !.limiter = NewLimiter(LimitOf(kbps * 1024), kbps * 1024)]

\* a WrapConn that drops the maxChunk it is given
WrapConnNoMax(bps, max) ==
    setRate([exists |-> TRUE, bps |-> bps, maxChunk |-> 0, chunkSize |-> 0,
             limiter |-> NewLimiter(Inf, 0), closed |-> FALSE], bps, 0)

WrapConn(bps, max) ==
    setRate([exists |-> TRUE, bps |-> bps, maxChunk |-> 0, chunkSize |-> 0,
             limiter |-> NewLimiter(Inf, 0), closed |-> FALSE], bps, max)

\* ------------------------------------------------------- Policier
RemoteAddr(c) == c

Registered == {connPool[a] : a \in DOMAIN connPool} \ {NoConn}

\* a panic in any goroutine ends the process
Running == \A c \in Conns : wr[c].pc # "panic"

\* the value SetGlobalRate stores as globalBps
StoredGlobal(globalRate, connRate) ==
    IF globalRate > 0 /\ globalRate < connRate THEN connRate ELSE globalRate

\* a SetGlobalRate that leaves no maximum chunk size for a global rate of 0
MaxChunkOfZero(globalRate) ==
    IF globalRate > 0 THEN Ceil5Permille(globalRate) ELSE 0

\* the maximum chunk size SetGlobalRate computes
MaxChunkOf(globalRate) ==
    IF globalRate > 0 THEN Ceil5Permille(globalRate) ELSE 128 * 1024

\* a SetGlobalRate that installs a limiter of burst 0 for a global rate of 0
GlobalLimiterZeroBurst(globalRate) ==
    NewLimiter(LimitOf(globalRate),
               IF globalRate = 0 THEN 0 ELSE MaxChunkOf(globalRate))

\* the limiter SetGlobalRate installs
GlobalLimiterOf(globalRate) ==
    NewLimiter(LimitOf(globalRate), MaxChunkOf(globalRate))

\* the value SetConnRate stores as connBPS; loaded is the value it loads to
\* compare against
ClampConn(connRate, loaded) ==
    IF loaded > 0 /\ connRate > loaded THEN loaded ELSE connRate

\* a Range that stops after the first connection
setConnMaxChunkFirstOnly(pool, w, max) ==
    [c \in Conns |-> IF c \in pool /\ c = 1 THEN calcChunk(w[c], max) ELSE w[c]]

\* a setConnMaxChunk that visits no connection
setConnMaxChunkNone(pool, w, max) == w

setConnMaxChunk(pool, w, max) ==
    [c \in Conns |-> IF c \in pool THEN calcChunk(w[c], max) ELSE w[c]]

limitConnections(pool, w, kbps, max) ==
    [c \in Conns |-> IF c \in pool THEN setRate(w[c], kbps, max) ELSE w[c]]

SetGlobalRate(kbps) ==
    LET globalRate == kbps * 1024
    IN  /\ Running
        /\ globalBps' = StoredGlobal(globalRate, connBPS)
        /\ maxChunk' = MaxChunkOf(globalRate)
        /\ wc' = setConnMaxChunk(Registered, wc, MaxChunkOf(globalRate))
        /\ limiter' = GlobalLimiterOf(globalRate)
        /\ lastOp' = [op |-> "SetGlobalRate", arg |-> kbps, conn |-> NoConn]
        /\ UNCHANGED <<connBPS, connPool, burstFactor, sg, ioVars>>

SetConnRate(kbps) ==
    /\ Running
    /\ connBPS' = ClampConn(kbps * 1024, connBPS)
    /\ wc' = limitConnections(Registered, wc, kbps, maxChunk)
    /\ lastOp' = [op |-> "SetConnRate", arg |-> kbps, conn |-> NoConn]
    /\ UNCHANGED <<globalBps, maxChunk, limiter, connPool, burstFactor, sg, ioVars>>

\* the public SetRate of one connection
SetRate(c, kbps) ==
    /\ Running
    /\ wc[c].exists
    /\ wc' = [wc EXCEPT ![c] = ConnSetRate(wc[c], kbps)]
    /\ lastOp' = [op |-> "SetRate", arg |-> kbps, conn |-> c]
    /\ UNCHANGED <<policierVars, ioVars, calls>>

\* Wrap(conn, nil): conn is the accepted transport connection c
Wrap(c) ==
    /\ Running
    /\ ~wc[c].exists
    /\ wc' = [wc EXCEPT ![c] = WrapConn(connBPS, maxChunk)]
    /\ lc' = [lc EXCEPT ![c].pc = "recv"]
    /\ connPool' = [connPool EXCEPT ![RemoteAddr(c)] = c]
    /\ lastOp' = [op |-> "Wrap", arg |-> 0, conn |-> c]
    /\ UNCHANGED <<globalBps, connBPS, maxChunk, limiter, burstFactor, sg, once,
                   sizes, permits, transport, wr, cl, hist, calls>>

\* BurstFactor.set fails for a factor outside [0.001, 1.0]
WrongBurstFactor(f) == f < 1 \/ f > 1000

\* the maximum chunk size for a global rate and a burst factor
BurstMaxChunk(globalRate, f) ==
    IF globalRate > 0 THEN CeilPermille(globalRate, f) ELSE 128 * 1024

\* SetBurstFactor(f): store the factor, then reapply the current global rate
SetBurstFactor(f) ==
    /\ Running
    /\ IF WrongBurstFactor(f)
       THEN /\ lastOp' = [op |-> "SetBurstFactor", arg |-> f, conn |-> NoConn,
                          err |-> "ErrWrongBurstFactor"]
            /\ UNCHANGED <<burstFactor, maxChunk, limiter, wc>>
       ELSE /\ burstFactor' = f
            /\ maxChunk' = BurstMaxChunk(globalBps, f)
            /\ limiter' = NewLimiter(LimitOf(globalBps), BurstMaxChunk(globalBps, f))
            /\ wc' = setConnMaxChunk(Registered, wc, BurstMaxChunk(globalBps, f))
            /\ lastOp' = [op |-> "SetBurstFactor", arg |-> f, conn |-> NoConn,
                          err |-> "nil"]
    /\ UNCHANGED <<globalBps, connBPS, connPool, sg, ioVars, calls>>

\* Wrap(conn, nil) up to go p.listenConn: the connection is built from the
\* connBPS and maxChunk read now, and is not in connPool yet
WrapBuild(c) ==
    /\ Running
    /\ ~wc[c].exists
    /\ wc' = [wc EXCEPT ![c] = WrapConn(connBPS, maxChunk)]
    /\ lc' = [lc EXCEPT ![c].pc = "recv"]
    /\ UNCHANGED <<policierVars, once, sizes, permits, transport, wr, cl, hist,
                   lastOp, calls>>

\* Wrap(conn, nil) from p.connPool.Store to its return
WrapStore(c) ==
    /\ Running
    /\ wc[c].exists
    /\ connPool[RemoteAddr(c)] = NoConn
    /\ connPool' = [connPool EXCEPT ![RemoteAddr(c)] = c]
    /\ lastOp' = [op |-> "Wrap", arg |-> 0, conn |-> c]
    /\ UNCHANGED <<globalBps, connBPS, maxChunk, limiter, burstFactor, sg, wc,
                   ioVars, calls>>

\* WrapConn(conn, 0, 0, sizes, permits) called by the program itself, with a
\* listenConn goroutine serving the two channels; the connection is not
\* registered
WrapDirect(c) ==
    /\ Running
    /\ ~wc[c].exists
    /\ wc' = [wc EXCEPT ![c] = WrapConn(0, 0)]
    /\ lc' = [lc EXCEPT ![c].pc = "recv"]
    /\ lastOp' = [op |-> "WrapConn", arg |-> 0, conn |-> c]
    /\ UNCHANGED <<policierVars, once, sizes, permits, transport, wr, cl, hist,
                   calls>>

\* the errors Accept hands to Wrap together with its connection
Errs == {"EOF", "timeout"}

\* a Wrap that registers the connection before it looks at the error
WrapErrPoolStores(pool, c) == [pool EXCEPT ![RemoteAddr(c)] = c]

\* the registry Wrap leaves when it returns at its test of err
WrapErrPool(pool, c) == pool

\* Wrap(conn, err) with err != nil: return nil, err
WrapErr(c, e) ==
    /\ Running
    /\ connPool' = WrapErrPool(connPool, c)
    /\ lastOp' = [op |-> "WrapErr", arg |-> e, conn |-> NoConn, err |-> e]
    /\ UNCHANGED <<globalBps, connBPS, maxChunk, limiter, burstFactor, sg, wc,
                   ioVars, calls>>

\* ------------------------------------------------------- listenConn
\* size, ok := <-sizes with ok false: close(permits) and return
LcSizesClosed(c) ==
    /\ Running
    /\ lc[c].pc = "recv"
    /\ sizes[c].closed
    /\ permits' = [permits EXCEPT ![c].closed = TRUE,
                                  ![c].closes = permits[c].closes + 1]
    /\ lc' = [lc EXCEPT ![c].pc = "exit"]
    /\ UNCHANGED <<policierVars, wc, once, sizes, transport, wr, cl, hist,
                   lastOp, calls>>

\* limiter := p.getCurrentLimiter()
LcLoadLimiter(c) ==
    /\ Running
    /\ lc[c].pc = "load"
    /\ lc' = [lc EXCEPT ![c].pc = "loadBps", ![c].lim = limiter]
    /\ UNCHANGED <<policierVars, wc, once, sizes, permits, transport, wr, cl,
                   hist, lastOp, calls>>

\* a listenConn that reserves the size it received
ClampSizeNone(size, burst) == size

\* the size listenConn reserves on the limiter it loaded
ClampSize(size, burst) == IF burst < size /\ burst > 0 THEN burst ELSE size

\* a listenConn that reserves on the limiter whatever the global rate
UnlimitedNever(globalBPS) == FALSE

\* if globalBPS == 0: the permit is sent at once
Unlimited(globalBPS) == globalBPS = 0

\* globalBPS := atomic.LoadUint64(&p.globalBps) and the branches on it
LcLoadBps(c) ==
    /\ Running
    /\ lc[c].pc = "loadBps"
    /\ lc' = [lc EXCEPT
                ![c].pc = IF Unlimited(globalBps) THEN "emit" ELSE "reserve",
                ![c].size = IF Unlimited(globalBps) THEN lc[c].size
                            ELSE ClampSize(lc[c].size, lc[c].lim.burst)]
    /\ UNCHANGED <<policierVars, wc, once, sizes, permits, transport, wr, cl,
                   hist, lastOp, calls>>

\* limiter.ReserveN and the sleep for its delay
LcReserve(c) ==
    /\ Running
    /\ lc[c].pc = "reserve"
    /\ lc' = [lc EXCEPT ![c].pc = IF ReserveOK(lc[c].lim, lc[c].size)
                                  THEN "emit" ELSE "sleep"]
    /\ UNCHANGED <<policierVars, wc, once, sizes, permits, transport, wr, cl,
                   hist, lastOp, calls>>

\* permits <- struct{}{}
LcEmit(c) ==
    /\ Running
    /\ lc[c].pc = "emit"
    /\ ~permits[c].closed
    /\ permits[c].buf < 1
    /\ permits' = [permits EXCEPT ![c].buf = permits[c].buf + 1]
    /\ lc' = [lc EXCEPT ![c].pc = "recv"]
    /\ hist' = [hist EXCEPT ![c].emit = hist[c].emit + 1]
    /\ UNCHANGED <<policierVars, wc, once, sizes, transport, wr, cl, lastOp,
                   calls>>

\* ------------------------------------------------------- WrappedConn.Write
\* the chunk size Write works with: chunkSize, lowered to bps when bps > 0
EffChunk(chunkSize, bps) == IF chunkSize > bps /\ bps > 0 THEN bps ELSE chunkSize

\* the branch that sends the rest of the buffer and returns
LastChunk(i, chunkSize, bytes) == i + chunkSize > bytes

\* a Write that always announces and cuts a whole chunk
ToWriteWhole(i, chunkSize, bytes) == chunkSize

\* the size Write announces on sizes for the chunk at offset i
ToWrite(i, chunkSize, bytes) ==
    IF LastChunk(i, chunkSize, bytes)
    THEN chunkSize - (i + chunkSize - bytes)
    ELSE chunkSize

\* the test of the for loop at offset w.i
LoopHead(w) ==
    IF w.i < w.len
    THEN [w EXCEPT !.pc = "send", !.toWrite = ToWrite(w.i, w.chunkSize, w.len)]
    ELSE [w EXCEPT !.pc = "returned", !.err = FALSE]

\* a Write that does not wait for its permit
AfterSendNoPermit == "reserve"

\* where Write continues after its send on sizes
AfterSend == "permit"

\* the event counters, kept relative to the chunks forwarded so far
Rebase(h) ==
    [h EXCEPT !.req = h.req - h.fwd, !.emit = h.emit - h.fwd,
              !.recv = h.recv - h.fwd, !.resv = h.resv - h.fwd, !.fwd = 0]

\* the limiter and the chunk size a Write would work with if it loaded them
\* from the connection now
Published(w) == [lim |-> w.limiter, chunk |-> EffChunk(w.chunkSize, w.bps)]

\* counts, up to two, the chunks a Write starts after SetGlobalRate returned
\* whose size is above the burst of the global limiter then published
CountOver(w) ==
    IF /\ w.pc = "send"
       /\ lastOp.op = "SetGlobalRate"
       /\ limiter.limit # Inf
       /\ w.toWrite > limiter.burst
    THEN [w EXCEPT !.over = Min(w.over + 1, 2)]
    ELSE w

\* limiter := c.getCurrentLimiter()
WriteBegin(c, len) ==
    /\ Running
    /\ wc[c].exists
    /\ wr[c].pc \in {"idle", "returned"}
    /\ wr' = [wr EXCEPT ![c] =
                [pc |-> "loadChunk", len |-> len, i |-> 0, wrote |-> 0,
                 chunkSize |-> 0, lim |-> wc[c].limiter, toWrite |-> 0,
                 slices |-> <<>>, results |-> <<>>, err |-> FALSE,
                 afterClose |-> hist[c].closeRets >= 1,
                 pub |-> Published(wc[c]), over |-> 0]]
    /\ hist' = [hist EXCEPT ![c] = Rebase(hist[c])]
    /\ UNCHANGED <<policierVars, wc, once, sizes, permits, transport, lc, cl,
                   lastOp, calls>>

\* chunkSize := atomic.LoadUint64(&c.chunkSize)
WriteLoadChunk(c) ==
    /\ Running
    /\ wr[c].pc = "loadChunk"
    /\ wr' = [wr EXCEPT ![c].pc = "loadBps", ![c].chunkSize = wc[c].chunkSize]
    /\ UNCHANGED <<policierVars, wc, once, sizes, permits, transport, lc, cl,
                   lastOp, calls, hist>>

\* bps := atomic.LoadUint64(&c.bps), the adjustment and the first loop test
WriteLoadBps(c) ==
    /\ Running
    /\ wr[c].pc = "loadBps"
    /\ wr' = [wr EXCEPT ![c] = CountOver(
                LoopHead([wr[c] EXCEPT
                            !.chunkSize = EffChunk(wr[c].chunkSize, wc[c].bps),
                            !.pub = [lim |-> wr[c].lim,
                                     chunk |-> EffChunk(wr[c].chunkSize, wc[c].bps)]]))]
    /\ UNCHANGED <<policierVars, wc, once, sizes, permits, transport, lc, cl,
                   lastOp, calls, hist>>

\* c.sizes <- toWrite, received by listenConn (the channel is unbuffered)
WriteSend(c) ==
    /\ Running
    /\ wr[c].pc = "send"
    /\ ~sizes[c].closed
    /\ lc[c].pc = "recv"
    /\ wr' = [wr EXCEPT ![c].pc = AfterSend]
    /\ lc' = [lc EXCEPT ![c].pc = "load", ![c].size = wr[c].toWrite]
    /\ hist' = [hist EXCEPT ![c].req = hist[c].req + 1]
    /\ UNCHANGED <<policierVars, wc, once, sizes, permits, transport, cl,
                   lastOp, calls>>

\* c.sizes <- toWrite on the closed channel panics
WriteSendPanic(c) ==
    /\ Running
    /\ wr[c].pc = "send"
    /\ sizes[c].closed
    /\ wr' = [wr EXCEPT ![c].pc = "panic"]
    /\ UNCHANGED <<policierVars, wc, once, sizes, permits, transport, lc, cl,
                   lastOp, calls, hist>>

\* a receive that leaves the permit in the channel
RecvPermitKeeps(buf) == buf

\* the buffer of permits after a receive took the permit, if there was one
RecvPermit(buf) == IF buf > 0 THEN buf - 1 ELSE 0

\* <-c.permits: a buffered permit, or the zero value of the closed channel
WriteRecvPermit(c) ==
    /\ Running
    /\ wr[c].pc = "permit"
    /\ permits[c].buf > 0 \/ permits[c].closed
    /\ permits' = [permits EXCEPT ![c].buf = RecvPermit(permits[c].buf)]
    /\ wr' = [wr EXCEPT ![c].pc = "reserve"]
    /\ hist' = [hist EXCEPT ![c].recv = hist[c].recv + 1]
    /\ UNCHANGED <<policierVars, wc, once, sizes, transport, lc, cl, lastOp,
                   calls>>

\* limiter.ReserveN(now, toWrite) and the sleep for its delay
WriteReserve(c) ==
    /\ Running
    /\ wr[c].pc = "reserve"
    /\ IF ReserveOK(wr[c].lim, wr[c].toWrite)
       THEN /\ wr' = [wr EXCEPT ![c].pc = "write"]
            /\ hist' = [hist EXCEPT ![c].resv = hist[c].resv + 1]
       ELSE /\ wr' = [wr EXCEPT ![c].pc = "sleep"]
            /\ UNCHANGED hist
    /\ UNCHANGED <<policierVars, wc, once, sizes, permits, transport, lc, cl,
                   lastOp, calls>>

\* the byte counts a failing transport write may report for n bytes
ShortCounts(n) == IF n = 0 THEN {0} ELSE {0, n - 1}

\* the results (n, err) of c.conn.Write of n bytes
WriteResults(t, n) ==
    IF t.closed
    THEN {[n |-> 0, err |-> TRUE]}
    ELSE {[n |-> n, err |-> FALSE]} \cup {[n |-> k, err |-> TRUE] : k \in ShortCounts(n)}

\* a Write that goes on with the next chunk after a failed transport write
ReturnsOnLast(last, err) == last

\* Write returns after the last chunk, and after any chunk whose transport
\* write failed
Returns(last, err) == last \/ err

\* c.conn.Write of the chunk, and what follows it in the loop
WriteTransport(c) ==
    /\ Running
    /\ wr[c].pc = "write"
    /\ \E r \in WriteResults(transport[c], wr[c].toWrite) :
         LET w == wr[c]
             sent == [w EXCEPT
                        !.wrote = w.wrote + r.n,
                        !.slices = Append(w.slices, <<w.i, w.i + w.toWrite>>),
                        !.results = Append(w.results, r)]
         IN  wr' = [wr EXCEPT ![c] =
                      IF Returns(LastChunk(w.i, w.chunkSize, w.len), r.err)
                      THEN [sent EXCEPT !.pc = "returned", !.err = r.err]
                      ELSE CountOver(
                             LoopHead([sent EXCEPT !.i = w.i + w.chunkSize,
                                                   !.pub = Published(wc[c])]))]
    /\ hist' = [hist EXCEPT ![c].fwd = hist[c].fwd + 1]
    /\ UNCHANGED <<policierVars, wc, once, sizes, permits, transport, lc, cl,
                   lastOp, calls>>

\* ------------------------------------------------------- WrappedConn.Close
InProgress(k) == k.pc \in {"once", "flag", "conn"}

\* a Close that never sees the flag set
ReadClosedStale(w) == FALSE

\* the value the test of c.closed reads
ReadClosed(w) == w.closed

\* if c.closed { return ErrConnClosed }
CloseCheck(c, t) ==
    /\ Running
    /\ wc[c].exists
    /\ cl[c][t].pc \in {"idle", "done"}
    /\ hist[c].closeCalls < MaxCloseCalls
    /\ cl' = [cl EXCEPT ![c][t] =
                IF ReadClosed(wc[c])
                THEN [pc |-> "done", res |-> "ErrConnClosed",
                      ord |-> hist[c].closeCalls + 1]
                ELSE [pc |-> "once", res |-> "none",
                      ord |-> hist[c].closeCalls + 1]]
    /\ hist' = [hist EXCEPT
                  ![c].closeCalls = hist[c].closeCalls + 1,
                  ![c].closeRets = IF ReadClosed(wc[c])
                                   THEN hist[c].closeRets + 1
                                   ELSE hist[c].closeRets,
                  ![c].overlap = hist[c].overlap
                                 \/ \E u \in Closers \ {t} : InProgress(cl[c][u])]
    /\ lastOp' = IF ReadClosed(wc[c])
                 THEN [op |-> "Close", arg |-> 0, conn |-> c]
                 ELSE lastOp
    /\ UNCHANGED <<policierVars, wc, once, sizes, permits, transport, lc, wr,
                   calls>>

\* c.onceCloser.Do entered: the first caller runs close(c.sizes), a caller
\* that finds the function already run returns, any other caller waits
CloseOnce(c, t) ==
    /\ Running
    /\ cl[c][t].pc = "once"
    /\ once[c] # "running"
    /\ IF once[c] = "fresh"
       THEN /\ once' = [once EXCEPT ![c] = "running"]
            /\ sizes' = [sizes EXCEPT ![c].closed = TRUE,
                                      ![c].closes = sizes[c].closes + 1]
            /\ cl' = [cl EXCEPT ![c][t].pc = "flag"]
       ELSE /\ cl' = [cl EXCEPT ![c][t].pc = "conn"]
            /\ UNCHANGED <<once, sizes>>
    /\ UNCHANGED <<policierVars, wc, permits, transport, lc, wr, lastOp, calls,
                   hist>>

\* c.closed = true, the end of the function onceCloser runs
CloseFlag(c, t) ==
    /\ Running
    /\ cl[c][t].pc = "flag"
    /\ wc' = [wc EXCEPT ![c].closed = TRUE]
    /\ once' = [once EXCEPT ![c] = "done"]
    /\ cl' = [cl EXCEPT ![c][t].pc = "conn"]
    /\ UNCHANGED <<policierVars, sizes, permits, transport, lc, wr, lastOp,
                   calls, hist>>

\* return c.conn.Close()
CloseTransport(c, t) ==
    /\ Running
    /\ cl[c][t].pc = "conn"
    /\ transport' = [transport EXCEPT ![c].closed = TRUE,
                                      ![c].closes = transport[c].closes + 1]
    /\ cl' = [cl EXCEPT ![c][t].pc = "done", ![c][t].res = "transport"]
    /\ hist' = [hist EXCEPT ![c].closeRets = hist[c].closeRets + 1]
    /\ lastOp' = [op |-> "Close", arg |-> 0, conn |-> c]
    /\ UNCHANGED <<policierVars, wc, once, sizes, permits, lc, wr, calls>>

\* ------------------------------------------------------- specifications
\* NewPolicier(g, k): connBPS is stored, then SetGlobalRate(g) runs
Init ==
    \E g \in Kbps, k \in Kbps :
        /\ connBPS = k * 1024
        /\ globalBps = StoredGlobal(g * 1024, k * 1024)
        /\ maxChunk = MaxChunkOf(g * 1024)
        /\ limiter = GlobalLimiterOf(g * 1024)
        /\ lastOp = [op |-> "NewPolicier", arg |-> g, conn |-> NoConn]
        /\ connPool = [a \in Conns |-> NoConn]
        /\ burstFactor = DefaultBurstFactor
        /\ sg = [t \in Closers |-> [pc |-> "idle", arg |-> 0, todo |-> {}]]
        /\ wc = [c \in Conns |-> NilConn]
        /\ once = [c \in Conns |-> "fresh"]
        /\ sizes = [c \in Conns |-> [closed |-> FALSE, closes |-> 0]]
        /\ permits = [c \in Conns |-> [buf |-> 0, closed |-> FALSE, closes |-> 0]]
        /\ transport = [c \in Conns |-> [closed |-> FALSE, closes |-> 0]]
        /\ lc = [c \in Conns |-> [pc |-> "none", size |-> 0, lim |-> NewLimiter(Inf, 0)]]
        /\ wr = [c \in Conns |->
                   [pc |-> "idle", len |-> 0, i |-> 0, wrote |-> 0, chunkSize |-> 0,
                    lim |-> NewLimiter(Inf, 0), toWrite |-> 0, slices |-> <<>>,
                    results |-> <<>>, err |-> FALSE, afterClose |-> FALSE,
                    pub |-> Published(NilConn), over |-> 0]]
        /\ cl = [c \in Conns |-> [t \in Closers |->
                   [pc |-> "idle", res |-> "none", ord |-> 0]]]
        /\ calls = 0
        /\ hist = [c \in Conns |->
                     [req |-> 0, emit |-> 0, recv |-> 0, resv |-> 0, fwd |-> 0,
                      closeCalls |-> 0, closeRets |-> 0, overlap |-> FALSE]]

\* the setters, called one after the other any number of times
CallSetGlobalRate == \E k \in Kbps : SetGlobalRate(k) /\ UNCHANGED calls
CallSetConnRate == \E k \in Kbps : SetConnRate(k) /\ UNCHANGED calls
CallSetRate == \E c \in Conns, k \in Kbps : SetRate(c, k)
CallWrap == \E c \in Conns : Wrap(c)
CallWrapErr == \E c \in Conns, e \in Errs : WrapErr(c, e)

Next ==
    \/ CallSetGlobalRate
    \/ CallSetConnRate
    \/ CallSetRate
    \/ CallWrap

Spec == Init /\ [][Next]_vars

\* Wrap called with and without an error, between calls of the setters
NextWrap ==
    \/ CallWrap
    \/ CallWrapErr
    \/ CallSetGlobalRate
    \/ CallSetConnRate

SpecWrap == Init /\ [][NextWrap]_vars

\* The goroutines of one connection. Connections share nothing but the
\* Policier's fields, which only the setters write, so the goroutines of the
\* first connection are the ones scheduled; the other connections are wrapped
\* and sit in the registry.
Active == {1}

\* a bounded number of setter calls made while the goroutines run
IOSetGlobalRate ==
    \E k \in Kbps : calls < MaxSetterCalls /\ calls' = calls + 1 /\ SetGlobalRate(k)
IOSetConnRate ==
    \E k \in Kbps : calls < MaxSetterCalls /\ calls' = calls + 1 /\ SetConnRate(k)
CallWrite ==
    \E c \in Active :
        \/ \E len \in 0..MaxLen : WriteBegin(c, len)
        \/ WriteLoadChunk(c)
        \/ WriteLoadBps(c)
        \/ WriteSend(c)
        \/ WriteSendPanic(c)
        \/ WriteRecvPermit(c)
        \/ WriteReserve(c)
        \/ WriteTransport(c)
listenConn ==
    \E c \in Active :
        \/ LcSizesClosed(c)
        \/ LcLoadLimiter(c)
        \/ LcLoadBps(c)
        \/ LcReserve(c)
        \/ LcEmit(c)
CallClose ==
    \E c \in Active, t \in Closers :
        CloseCheck(c, t) \/ CloseOnce(c, t) \/ CloseFlag(c, t) \/ CloseTransport(c, t)
\* Close called from one goroutine only
CallCloseSeq ==
    \E c \in Active :
        CloseCheck(c, 1) \/ CloseOnce(c, 1) \/ CloseFlag(c, 1) \/ CloseTransport(c, 1)

\* Write, listenConn and Close on a wrapped connection
NextIO ==
    \/ \E c \in Active : Wrap(c)
    \/ CallWrite
    \/ listenConn
    \/ CallCloseSeq

SpecIO == Init /\ [][NextIO]_vars

\* Close called from two goroutines, with the setters
NextClose ==
    \/ CallWrap
    \/ CallClose
    \/ \E c \in Active : LcSizesClosed(c)
    \/ IOSetGlobalRate
    \/ IOSetConnRate

SpecClose == Init /\ [][NextClose]_vars

\* buffer lengths of one byte, of more than one chunk of the smallest
\* maxChunk, and of more than two
Lens == {1, MaxLen \div 2 + 1, MaxLen}

\* Write and listenConn on a connection that stays open
WriteOpen ==
    \E c \in Active :
        \/ \E len \in Lens : WriteBegin(c, len)
        \/ WriteLoadChunk(c)
        \/ WriteLoadBps(c)
        \/ WriteSend(c)
        \/ WriteRecvPermit(c)
        \/ WriteReserve(c)
        \/ WriteTransport(c)
listenOpen ==
    \E c \in Active : LcLoadLimiter(c) \/ LcLoadBps(c) \/ LcReserve(c) \/ LcEmit(c)
IOSetRate == \E c \in Active, k \in Kbps : SetRate(c, k)

\* the Policier's setters called while a Write is in progress
NextAdmit ==
    \/ \E c \in Active : Wrap(c)
    \/ WriteOpen
    \/ listenOpen
    \/ IOSetGlobalRate
    \/ IOSetConnRate

SpecAdmit == Init /\ [][NextAdmit]_vars

\* the same, with the listenConn goroutine scheduled whenever it can run
SpecAdmitFair == SpecAdmit /\ WF_vars(listenOpen)

\* the connection's SetRate called while a Write is in progress
NextRate ==
    \/ \E c \in Active : Wrap(c)
    \/ WriteOpen
    \/ listenOpen
    \/ IOSetRate

SpecRate == Init /\ [][NextRate]_vars

\* the connection's SetRate, counted with the calls of the other setters
IOSetRateCounted ==
    \E c \in Active, k \in Kbps :
        /\ Running
        /\ wc[c].exists
        /\ calls < MaxSetterCalls
        /\ calls' = calls + 1
        /\ wc' = [wc EXCEPT ![c] = ConnSetRate(wc[c], k)]
        /\ lastOp' = [op |-> "SetRate", arg |-> k, conn |-> c]
        /\ UNCHANGED <<policierVars, ioVars>>

\* any of the three setters called while a Write is in progress
NextChunk ==
    \/ \E c \in Active : Wrap(c)
    \/ WriteOpen
    \/ listenOpen
    \/ IOSetGlobalRate
    \/ IOSetConnRate
    \/ IOSetRateCounted

SpecChunk == Init /\ [][NextChunk]_vars

\* a buffer one byte longer than the burst of a connection limited to 1 kB/s
LongLen == 1024 + 1

\* Write of a long buffer on a connection that stays open
WriteLong ==
    \E c \in Active :
        \/ WriteBegin(c, LongLen)
        \/ WriteLoadChunk(c)
        \/ WriteLoadBps(c)
        \/ WriteSend(c)
        \/ WriteRecvPermit(c)
        \/ WriteReserve(c)
        \/ WriteTransport(c)

\* the connection's SetRate called while a long Write is in progress
NextLong ==
    \/ \E c \in Active : Wrap(c)
    \/ WriteLong
    \/ listenOpen
    \/ IOSetRate

SpecLong == Init /\ [][NextLong]_vars

\* Write on a connection built by WrapConn with rate 0 and maxChunk 0; the
\* loop is followed for MaxLen transport writes
WriteDirect ==
    \E c \in Active :
        \/ \E len \in Lens : WriteBegin(c, len)
        \/ WriteLoadChunk(c)
        \/ WriteLoadBps(c)
        \/ WriteSend(c)
        \/ WriteRecvPermit(c)
        \/ WriteReserve(c)
        \/ Len(wr[c].slices) < MaxLen /\ WriteTransport(c)
NextDirect ==
    \/ \E c \in Active : WrapDirect(c)
    \/ WriteDirect
    \/ listenOpen

SpecDirect == Init /\ [][NextDirect]_vars

\* Wrap in its two steps, with SetGlobalRate called from another goroutine
WrapSteps == \E c \in Conns : WrapBuild(c) \/ WrapStore(c)
NextWrapRace ==
    \/ WrapSteps
    \/ CallSetGlobalRate

SpecWrapRace == Init /\ [][NextWrapRace]_vars

\* SetGlobalRate called while a long Write is in progress
NextLongAdmit ==
    \/ \E c \in Active : Wrap(c)
    \/ WriteLong
    \/ listenOpen
    \/ IOSetGlobalRate

SpecLongAdmit == Init /\ [][NextLongAdmit]_vars

\* the burst factor changed between calls of Wrap and SetGlobalRate
CallSetBurstFactor == \E f \in Factors : SetBurstFactor(f)
NextBurst ==
    \/ CallWrap
    \/ IOSetGlobalRate
    \/ CallSetBurstFactor

SpecBurst == Init /\ [][NextBurst]_vars

\* SetGlobalRate step by step, called from the goroutines t
\* connRate is loaded and p.globalBps stored
SgStoreGlobal(t, kbps) ==
    /\ Running
    /\ sg[t].pc = "idle"
    /\ globalBps' = StoredGlobal(kbps * 1024, connBPS)
    /\ sg' = [sg EXCEPT ![t] = [pc |-> "maxChunk", arg |-> kbps, todo |-> {}]]
    /\ UNCHANGED <<connBPS, maxChunk, limiter, connPool, burstFactor, wc,
                   ioVars, lastOp, calls>>

\* atomic.StoreUint64(&p.maxChunk, maxChunk); Range starts on the registry
SgStoreMaxChunk(t) ==
    /\ Running
    /\ sg[t].pc = "maxChunk"
    /\ maxChunk' = MaxChunkOf(sg[t].arg * 1024)
    /\ sg' = [sg EXCEPT ![t].pc = "range", ![t].todo = Registered]
    /\ UNCHANGED <<globalBps, connBPS, limiter, connPool, burstFactor, wc,
                   ioVars, lastOp, calls>>

\* one call of calcChunk(maxChunk) made by the Range of setConnMaxChunk
SgCalcChunk(t, c) ==
    /\ Running
    /\ sg[t].pc = "range"
    /\ c \in sg[t].todo
    /\ wc' = [wc EXCEPT ![c] = calcChunk(wc[c], MaxChunkOf(sg[t].arg * 1024))]
    /\ sg' = [sg EXCEPT ![t].todo = sg[t].todo \ {c}]
    /\ UNCHANGED <<globalBps, connBPS, maxChunk, limiter, connPool,
                   burstFactor, ioVars, lastOp, calls>>

\* p.setLimiter(rate.NewLimiter(limit, int(maxChunk))) and the return
SgSetLimiter(t) ==
    /\ Running
    /\ sg[t].pc = "range"
    /\ sg[t].todo = {}
    /\ limiter' = GlobalLimiterOf(sg[t].arg * 1024)
    /\ sg' = [sg EXCEPT ![t].pc = "done"]
    /\ lastOp' = [op |-> "SetGlobalRate", arg |-> sg[t].arg, conn |-> NoConn]
    /\ UNCHANGED <<globalBps, connBPS, maxChunk, connPool, burstFactor, wc,
                   ioVars, calls>>

SetGlobalRateSteps ==
    \E t \in Closers :
        \/ \E k \in Kbps : SgStoreGlobal(t, k)
        \/ SgStoreMaxChunk(t)
        \/ \E c \in Conns : SgCalcChunk(t, c)
        \/ SgSetLimiter(t)

\* Wrap called before any SetGlobalRate has started
WrapFirst ==
    \E c \in Conns : (\A t \in Closers : sg[t].pc = "idle") /\ Wrap(c)

\* two goroutines each calling SetGlobalRate once, on wrapped connections
NextSetRace ==
    \/ WrapFirst
    \/ SetGlobalRateSteps

SpecSetRace == Init /\ [][NextSetRace]_vars

\* no Write is in progress on any connection
Quiet == \A c \in Conns : wr[c].pc \in {"idle", "returned"}

\* a bounded number of setter calls, made one after the other and only
\* between Writes
QuietSetters ==
    /\ Quiet
    /\ IOSetGlobalRate \/ IOSetConnRate \/ IOSetRateCounted

NextQuiet ==
    \/ \E c \in Active : Wrap(c)
    \/ WriteOpen
    \/ listenOpen
    \/ QuietSetters

SpecQuiet == Init /\ [][NextQuiet]_vars

\* ------------------------------------------------------------ properties
IsSetter(op) == op \in {"SetGlobalRate", "SetConnRate"}

\* the slices sl go from offset 0 to offset n, each starting where the one
\* before it ends, none empty
CoversExactly(sl, n) ==
    /\ Len(sl) >= 1
    /\ sl[1][1] = 0
    /\ sl[Len(sl)][2] = n
    /\ \A j \in 1..Len(sl) :
         /\ sl[j][1] < sl[j][2]
         /\ j < Len(sl) => sl[j][2] = sl[j + 1][1]

\* C1: a Write of L >= 1 bytes with chunk size >= 1 whose transport writes
\* all succeed forwards contiguous, non-overlapping slices in buffer order
\* that cover buf[0:L] exactly once, and returns (L, nil).
C1_WriteCoversBuffer ==
    \A c \in Conns :
        (wr[c].pc = "returned" /\ ~wr[c].err /\ wr[c].len >= 1 /\ wr[c].chunkSize >= 1)
            => /\ CoversExactly(wr[c].slices, wr[c].len)
               /\ wr[c].wrote = wr[c].len

\* a successful Write of three chunks, the last one shorter than the others
C1_Witness ==
    \E c \in Conns :
        /\ wr[c].pc = "returned" /\ ~wr[c].err
        /\ Len(wr[c].slices) = 3
        /\ wr[c].len < 3 * wr[c].chunkSize

\* C2: per connection, chunks forwarded <= reservations on the connection's
\* limiter <= permits received <= permits emitted <= size requests received
\* by listenConn; every counter is bumped by the event itself, so the k-th
\* event of each kind happens after the k-th event of the kind before it.
C2_AdmissionOrder ==
    \A c \in Conns :
        /\ hist[c].fwd <= hist[c].resv
        /\ hist[c].resv <= hist[c].recv
        /\ hist[c].recv <= hist[c].emit
        /\ hist[c].emit <= hist[c].req

\* the third chunk of a Write is waiting for its permit after Close has
\* closed sizes
C2_Witness ==
    \E c \in Conns :
        /\ hist[c].fwd = 2
        /\ hist[c].req = 3
        /\ hist[c].emit = 2
        /\ sizes[c].closed

\* C3: whenever the stored global rate is > 0 the stored per-connection
\* default rate is <= the stored global rate.
C3_ConnRateBelowGlobal == globalBps > 0 => connBPS <= globalBps

\* C4: SetConnRate(k) stores min(k*1024, G) when the stored global rate G is
\* > 0 and k*1024 when G = 0, whatever the previous per-connection rate was.
C4_SetConnRateStores ==
    lastOp.op = "SetConnRate"
        => connBPS = IF globalBps > 0
                     THEN Min(lastOp.arg * 1024, globalBps)
                     ELSE lastOp.arg * 1024

\* the chunk size calcChunk derives from a maximum chunk and a rate
ChunkFor(max, bps) == IF max > bps /\ bps > 0 THEN bps ELSE max

\* C5: after SetConnRate(k) every registered connection has the stored
\* per-connection default rate, a limiter refilling at that rate (infinite
\* when it is 0) and a chunk size recomputed from the policier's maxChunk.
C5_SetConnRatePropagates ==
    lastOp.op = "SetConnRate"
        => \A c \in Registered :
              /\ wc[c].bps = connBPS
              /\ wc[c].limiter.limit = LimitOf(connBPS)
              /\ wc[c].maxChunk = maxChunk
              /\ wc[c].chunkSize = ChunkFor(maxChunk, connBPS)

\* C6: after SetGlobalRate(k) the global limiter refills at the stored
\* global rate (infinite when it is 0) and maxChunk is the value derived from
\* the stored global rate, also when the stored rate was clamped up.
C6_GlobalLimiterMatchesStored ==
    lastOp.op = "SetGlobalRate"
        => /\ limiter.limit = LimitOf(globalBps)
           /\ maxChunk = MaxChunkOf(globalBps)

\* C7: after SetGlobalRate or SetConnRate returns, the global limiter's burst
\* equals the policier's maxChunk, and every registered connection has that
\* maxChunk and the chunk size calcChunk derives from it and the connection's
\* current rate.
C7_DerivedStateAgrees ==
    IsSetter(lastOp.op)
        => /\ limiter.burst = maxChunk
           /\ \A c \in Registered :
                /\ wc[c].maxChunk = maxChunk
                /\ wc[c].chunkSize = ChunkFor(maxChunk, wc[c].bps)

\* a setter has returned with every connection registered, one of them
\* cutting chunks by its own rate and another by the policier's maxChunk
C7_Witness ==
    /\ IsSetter(lastOp.op)
    /\ Registered = Conns
    /\ \E c \in Conns : wc[c].chunkSize = wc[c].bps /\ wc[c].bps < maxChunk
    /\ \E c \in Conns : wc[c].chunkSize = maxChunk /\ wc[c].bps # connBPS

\* C8: Close calls on one connection that never overlap: the first closes
\* sizes and returns the transport's Close result, every later one returns
\* ErrConnClosed, and sizes and the transport are closed once.
C8_SequentialClose ==
    \A c \in Conns, t \in Closers :
        (cl[c][t].pc = "done" /\ ~hist[c].overlap)
            => /\ sizes[c].closes = 1
               /\ transport[c].closes = 1
               /\ cl[c][t].res = IF cl[c][t].ord = 1 THEN "transport"
                                 ELSE "ErrConnClosed"

\* three calls that did not overlap have returned, made by two goroutines
C8_Witness ==
    \E c \in Conns :
        /\ ~hist[c].overlap
        /\ hist[c].closeRets = 3
        /\ cl[c][1].res = "transport"
        /\ cl[c][2].res = "ErrConnClosed"

\* C9: however Close calls on one connection interleave, sizes is closed once
\* and the transport's Close is called once.
C9_ConcurrentCloseOnce ==
    \A c \in Conns :
        /\ sizes[c].closes <= 1
        /\ transport[c].closes <= 1

\* C10: once Close has returned the connection is not in the registry.
C10_ClosedNotRegistered ==
    \A c \in Conns : hist[c].closeRets >= 1 => c \notin Registered

\* C11: a Write of a non-empty buffer begun after Close has returned does not
\* crash in the admission handshake: it never panics on its send on sizes.
C11_WriteAfterCloseNoCrash ==
    \A c \in Conns :
        (wr[c].afterClose /\ wr[c].len >= 1) => wr[c].pc # "panic"

\* C12: Wrap(conn, err) with err # nil returns (nil, err) with the error it was
\* given, and the call changes neither the registry nor any connection and
\* starts no listenConn goroutine.
C12_WrapErrorSurfaced ==
    [][lastOp'.op = "WrapErr"
         => /\ lastOp'.conn = NoConn
            /\ lastOp'.err = lastOp'.arg
            /\ connPool' = connPool
            /\ wc' = wc
            /\ lc' = lc]_vars

\* Wrap has returned an error while one connection was wrapped and the other
\* was not
C12_Witness ==
    /\ lastOp.op = "WrapErr"
    /\ Cardinality(Registered) = 1
    /\ \E c \in Conns : lc[c].pc = "none"

\* C13: when Wrap(conn, nil) returns, with the setters not running during the
\* call, the connection it returns has the policier's stored per-connection
\* rate and maxChunk and is stored under its remote address, and the
\* connections with a listenConn goroutine are exactly the wrapped ones.
C13_WrapRegisters ==
    lastOp.op = "Wrap"
        => /\ wc[lastOp.conn].exists
           /\ wc[lastOp.conn].bps = connBPS
           /\ wc[lastOp.conn].maxChunk = maxChunk
           /\ connPool[RemoteAddr(lastOp.conn)] = lastOp.conn
           /\ lc[lastOp.conn].pc = "recv"
           /\ \A c \in Conns : lc[c].pc = "none" <=> ~wc[c].exists

\* the second connection has been wrapped after the setters left the first
\* one with another rate and another maxChunk
C13_Witness ==
    /\ lastOp.op = "Wrap"
    /\ Registered = Conns
    /\ \E c \in Conns :
         /\ wc[c].bps # wc[lastOp.conn].bps
         /\ wc[c].maxChunk = wc[lastOp.conn].maxChunk
    /\ wc[lastOp.conn].chunkSize < wc[lastOp.conn].bps

\* C14: a call of SetRate(k) on a connection stores rate k*1024 and a limiter
\* with rate k*1024 (infinite when k = 0) and burst k*1024, and changes neither
\* the connection's chunkSize and maxChunk, nor the policier's rates, maxChunk
\* and limiter, nor any other connection; and a connection whose rate is 0
\* still forwards no chunk without a size request answered by a permit.
C14_SetRateOverride ==
    /\ [][(lastOp' # lastOp /\ lastOp'.op = "SetRate")
            => /\ wc'[lastOp'.conn].bps = lastOp'.arg * 1024
               /\ wc'[lastOp'.conn].limiter =
                      NewLimiter(LimitOf(lastOp'.arg * 1024), lastOp'.arg * 1024)
               /\ wc'[lastOp'.conn].chunkSize = wc[lastOp'.conn].chunkSize
               /\ wc'[lastOp'.conn].maxChunk = wc[lastOp'.conn].maxChunk
               /\ <<globalBps, connBPS, maxChunk, limiter>>'
                      = <<globalBps, connBPS, maxChunk, limiter>>
               /\ \A d \in Conns \ {lastOp'.conn} : wc'[d] = wc[d]]_vars
    /\ [](\A c \in Conns :
            wc[c].bps = 0
                => /\ hist[c].fwd <= hist[c].recv
                   /\ hist[c].recv <= hist[c].emit
                   /\ hist[c].emit <= hist[c].req)

\* SetRate(0) has lifted the rate of a connection wrapped with a rate, and a
\* Write begun after it has forwarded two chunks, each after its handshake
C14_Witness ==
    \E c \in Conns :
        /\ lastOp = [op |-> "SetRate", arg |-> 0, conn |-> c]
        /\ connBPS # 0
        /\ wc[c].bps = 0
        /\ wr[c].pc = "returned"
        /\ wr[c].lim.limit = Inf
        /\ Len(wr[c].slices) >= 2
        /\ hist[c].emit = hist[c].fwd

\* C15: when listenConn loads a stored global rate of 0 it goes on to send
\* the permit, with no reservation on the global limiter and no sleep; and a
\* connection whose rate is 0 has a limiter on which every reservation has no
\* delay.
C15_ZeroRateUnlimited ==
    /\ [][\A c \in Conns :
             (lc[c].pc = "loadBps" /\ lc'[c].pc # "loadBps" /\ globalBps = 0)
                 => lc'[c].pc = "emit"]_vars
    /\ [](\A c \in Conns :
            (wc[c].exists /\ wc[c].bps = 0)
                => /\ wc[c].limiter.limit = Inf
                   /\ \A n \in 0..MaxLen : ReserveOK(wc[c].limiter, n))

\* SetGlobalRate(0) has returned after listenConn loaded the limiter of a
\* non-zero global rate, and listenConn is about to send the permit; the
\* connection's own rate is 0
C15_Witness ==
    \E c \in Conns :
        /\ lastOp.op = "SetGlobalRate" /\ lastOp.arg = 0
        /\ globalBps = 0
        /\ lc[c].pc = "emit"
        /\ lc[c].lim.limit # Inf
        /\ wc[c].bps = 0

RECURSIVE SumCounts(_)
SumCounts(rs) == IF rs = <<>> THEN 0 ELSE rs[1].n + SumCounts(Tail(rs))

\* C17: a transport write that fails is the last one of its Write: the Write
\* has returned, with that error and with the sum of all the counts the
\* transport reported, the failing write's included, and it has sent no size
\* request and forwarded no chunk after it.
C17_ErrorStopsWrite ==
    \A c \in Conns :
        /\ \A j \in 1..Len(wr[c].results) :
              wr[c].results[j].err
                  => /\ j = Len(wr[c].results)
                     /\ wr[c].pc = "returned"
                     /\ wr[c].err
                     /\ hist[c].req = j
                     /\ hist[c].fwd = j
        /\ (wr[c].pc = "returned" /\ wr[c].err)
              => wr[c].wrote = SumCounts(wr[c].results)

\* the second transport write of a Write failed after part of the chunk,
\* with more of the buffer left to send
C17_Witness ==
    \E c \in Conns :
        /\ wr[c].pc = "returned" /\ wr[c].err
        /\ Len(wr[c].results) = 2
        /\ wr[c].results[2].n > 0
        /\ wr[c].wrote > wr[c].results[1].n
        /\ wr[c].slices[2][2] < wr[c].len

\* C18: every chunk of a Write is cut with the chunk size, and reserved on the
\* limiter, that the connection published when the chunk was started: for the
\* first chunk what Write loaded on entry, for every later chunk what the
\* setters that returned before the chunk's loop iteration left.
C18_SnapshotPerChunk ==
    \A c \in Conns :
        wr[c].pc \in {"send", "permit", "reserve", "write"}
            => /\ wr[c].lim = wr[c].pub.lim
               /\ wr[c].chunkSize = wr[c].pub.chunk

\* C19: a connection never has more than one chunk between its size request
\* and its transport write, and when Write is about to send the size of a
\* chunk every chunk before it has been answered by a permit, received that
\* permit, been reserved on the connection's limiter and been forwarded.
C19_OneChunkInFlight ==
    \A c \in Conns :
        /\ hist[c].req <= hist[c].fwd + 1
        /\ hist[c].req <= hist[c].emit + 1
        /\ wr[c].pc = "send"
              => /\ hist[c].emit = hist[c].req
                 /\ hist[c].recv = hist[c].req
                 /\ hist[c].resv = hist[c].req
                 /\ hist[c].fwd = hist[c].req

\* Write is about to send the size of its third chunk to listenConn, which
\* waits for it
C19_Witness ==
    \E c \in Conns :
        /\ wr[c].pc = "send"
        /\ Len(wr[c].slices) = 2
        /\ hist[c].fwd = 2
        /\ lc[c].pc = "recv"
        /\ permits[c].buf = 0

\* C20: with the listenConn goroutine scheduled fairly and SetGlobalRate
\* interleaved anywhere, listenConn never reserves more than the burst of the
\* limiter it loaded, so it never waits on an infeasible reservation, and
\* every size request it received is followed by one permit and no more.
C20_RequestGetsPermit ==
    /\ [](\A c \in Conns :
            /\ lc[c].pc # "sleep"
            /\ lc[c].pc = "reserve"
                  => (lc[c].lim.limit = Inf \/ lc[c].size <= lc[c].lim.burst)
            /\ hist[c].emit <= hist[c].req
            /\ hist[c].req <= hist[c].emit + 1)
    /\ \A c \in Conns :
          (hist[c].req = hist[c].emit + 1) ~> (hist[c].req = hist[c].emit)

\* listenConn is about to reserve the burst of the limiter it loaded, which
\* is less than the size the Write asked for
C20_Witness ==
    \E c \in Conns :
        /\ lc[c].pc = "reserve"
        /\ lc[c].size = lc[c].lim.burst
        /\ lc[c].size < wr[c].toWrite
        /\ hist[c].req = hist[c].emit + 1

\* C21: whatever Write and the setters of its connection interleave, the
\* size Write reserves on the limiter it loaded is within that limiter's
\* burst when the limiter is finite, and Write never waits on a reservation
\* that cannot be granted.
C21_WriteReservationFeasible ==
    \A c \in Conns :
        /\ wr[c].pc = "reserve"
              => (wr[c].lim.limit = Inf \/ wr[c].toWrite <= wr[c].lim.burst)
        /\ wr[c].pc # "sleep"

\* C22: of the chunks a Write starts after SetGlobalRate has returned, at most
\* one is requested with a size above the burst of the global limiter the
\* setter published.
C22_OneStaleChunk == \A c \in Conns : wr[c].over <= 1

\* C23: whenever no call of Wrap or of a setter is in progress, every
\* registered connection has the policier's maxChunk and per-connection rate
\* and the chunk size derived from them.
C23_WrapSeesSetter ==
    (\A c \in Conns : wc[c].exists => c \in Registered)
        => \A c \in Registered :
              /\ wc[c].maxChunk = maxChunk
              /\ wc[c].bps = connBPS
              /\ wc[c].chunkSize = ChunkFor(maxChunk, connBPS)

\* C24: a Write that was in progress when Close ran, begun before any Close
\* returned, never sends on the closed sizes channel, so it does not panic,
\* and never takes the zero value of the closed permits channel for a permit.
C24_CloseDuringWrite ==
    \A c \in Conns :
        ~wr[c].afterClose
            => /\ wr[c].pc # "panic"
               /\ hist[c].recv <= hist[c].emit

\* C25: permits is closed only after sizes was closed and at most once, it is
\* closed exactly when listenConn has exited, so that no permit is sent on it
\* afterwards, and for as long as sizes is closed and permits is not,
\* listenConn is able to take its next step towards closing permits.
C25_PermitsClosedAfterSizes ==
    \A c \in Conns :
        /\ permits[c].closed => sizes[c].closed
        /\ permits[c].closes <= 1
        /\ permits[c].closed <=> lc[c].pc = "exit"
        /\ (lc[c].pc # "none" /\ sizes[c].closed /\ ~permits[c].closed)
              => ENABLED (LcSizesClosed(c) \/ LcLoadLimiter(c) \/ LcLoadBps(c)
                            \/ LcReserve(c) \/ LcEmit(c))

\* C26: a Write on a connection with chunkSize 0 and rate 0 sends no size
\* request and forwards the whole buffer to the transport in one write.
C26_UnlimitedWriteDirect ==
    \A c \in Conns :
        (wc[c].exists /\ wc[c].chunkSize = 0 /\ wc[c].bps = 0)
            => /\ hist[c].req = 0
               /\ wr[c].slices \in {<<>>, <<<<0, wr[c].len>>>>}

\* C27: the policier's maxChunk is >= 1 and every connection made by Wrap has
\* chunkSize >= 1, whatever setters were called; so the chunk size a Write
\* works with is >= 1, the offsets of the slices it forwards increase
\* strictly, and a Write of L bytes sends at most L size requests.
C27_ChunkAtLeastOne ==
    /\ maxChunk >= 1
    /\ \A c \in Conns :
         /\ wc[c].exists
               => /\ wc[c].chunkSize >= 1
                  /\ EffChunk(wc[c].chunkSize, wc[c].bps) >= 1
         /\ wr[c].pc \in {"send", "permit", "reserve", "write", "returned"}
               => /\ wr[c].chunkSize >= 1
                  /\ hist[c].req <= wr[c].len
         /\ \A j \in 1..(Len(wr[c].slices) - 1) :
               wr[c].slices[j][1] < wr[c].slices[j + 1][1]

\* a Write of MaxLen bytes has returned after MaxLen admission rounds, on a
\* connection whose chunk size a setter lowered to 1
C27_Witness ==
    \E c \in Conns :
        /\ wc[c].chunkSize = 1
        /\ wr[c].pc = "returned" /\ ~wr[c].err
        /\ wr[c].len = MaxLen
        /\ hist[c].req = MaxLen
        /\ Len(wr[c].slices) = MaxLen

\* C28: each size a Write sends on sizes is min(chunkSize, bytes remaining),
\* is >= 1 and is the length of the slice forwarded for that chunk, and a
\* Write of L bytes that returns without error has sent ceil(L / chunkSize)
\* size requests.
C28_SizeIsSliceLength ==
    \A c \in Conns :
        /\ wr[c].pc \in {"send", "permit", "reserve", "write"}
              => /\ wr[c].toWrite = Min(wr[c].chunkSize, wr[c].len - wr[c].i)
                 /\ wr[c].toWrite >= 1
        /\ lc[c].pc = "load" => lc[c].size = wr[c].toWrite
        /\ \A j \in 1..Len(wr[c].slices) :
              LET sl == wr[c].slices[j]
              IN  /\ sl[2] - sl[1] = Min(wr[c].chunkSize, wr[c].len - sl[1])
                  /\ sl[2] - sl[1] >= 1
        /\ (wr[c].pc = "returned" /\ ~wr[c].err /\ wr[c].len >= 1)
              => /\ wr[c].chunkSize >= 1
                 /\ hist[c].req =
                      (wr[c].len + wr[c].chunkSize - 1) \div wr[c].chunkSize

\* the connections whose chunk size the last operation recomputed: the one
\* Wrap made, or every registered one after a setter of the policier
Recomputed ==
    {c \in Conns :
        /\ wc[c].exists
        /\ \/ lastOp.op = "Wrap" /\ lastOp.conn = c
           \/ IsSetter(lastOp.op) /\ c \in Registered}

\* C29: calcChunk leaves chunkSize = maxChunk on a connection whose rate is 0
\* and chunkSize = ceil(rate * burstFactor) on one whose rate is > 0, whatever
\* maxChunk is.
C29_ChunkFromBurstFactor ==
    \A c \in Recomputed :
        wc[c].chunkSize = IF wc[c].bps = 0
                          THEN wc[c].maxChunk
                          ELSE CeilPermille(wc[c].bps, burstFactor)

\* C30: after Wrap or a setter of the policier recomputed a connection's chunk
\* size, the connection's limiter refills at the connection's rate (infinite
\* when it is 0) and, the rate being finite, its burst is the connection's
\* chunkSize.
C30_BurstTracksChunk ==
    \A c \in Recomputed :
        /\ wc[c].limiter.limit = LimitOf(wc[c].bps)
        /\ wc[c].bps > 0 => wc[c].limiter.burst = wc[c].chunkSize

C32_ConcurrentSettersAgree ==
    (\A t \in Closers : sg[t].pc = "done")
        => \E t \in Closers :
              LET G == sg[t].arg * 1024
              IN  /\ globalBps = StoredGlobal(G, connBPS)
                  /\ maxChunk = MaxChunkOf(G)
                  /\ limiter = GlobalLimiterOf(G)
                  /\ \A c \in Registered : wc[c].maxChunk = MaxChunkOf(G)

\* C33: with the setters called one after the other and between Writes, and
\* a global rate > 0, the chunk size a Write would work with on a registered
\* connection is within the burst of the global limiter; the size listenConn
\* reserves for a chunk is then the chunk's size, never lowered to the burst.
C33_ChunkWithinGlobalBurst ==
    globalBps > 0
        => \A c \in Registered :
              /\ EffChunk(wc[c].chunkSize, wc[c].bps) <= limiter.burst
              /\ wr[c].pc \in {"send", "permit", "reserve", "write"}
                    => wr[c].toWrite <= limiter.burst
              /\ lc[c].pc \in {"reserve", "emit"}
                    => /\ lc[c].lim = limiter
                       /\ lc[c].size = wr[c].toWrite

C33_Witness ==
    \E c \in Registered :
        /\ globalBps > 0
        /\ IsSetter(lastOp.op)
        /\ lc[c].pc = "reserve"
        /\ lc[c].size = limiter.burst
        /\ wr[c].len > wr[c].toWrite
        /\ wr[c].i > 0

\* C34: on a connection made by Wrap, with one Write at a time, permits never
\* holds more than one permit, holds none when no Write is in progress, and
\* holds none when listenConn is about to send a permit, so that the send
\* does not block.
C34_PermitsSingleSlot ==
    \A c \in Conns :
        /\ permits[c].buf <= 1
        /\ wr[c].pc \in {"idle", "returned"} => permits[c].buf = 0
        /\ lc[c].pc = "emit" => permits[c].buf = 0 /\ ~permits[c].closed
        /\ hist[c].emit <= hist[c].recv + 1

\* the Write of a second chunk has received its permit, and Close has closed
\* sizes since
C34_Witness ==
    \E c \in Conns :
        /\ wr[c].pc = "reserve"
        /\ Len(wr[c].slices) = 1
        /\ hist[c].emit = 2
        /\ hist[c].recv = 2
        /\ permits[c].buf = 0
        /\ sizes[c].closed

============================================================================
